---- MODULE Spec2Model ----
(***************************************************************************)
(* The chat session manager of automation-lab-2.0: the Chat page of        *)
(* src/App.tsx (handleSend and the handlers around it), the persisted      *)
(* store hook useLocalStorage, the provider dispatch of                    *)
(* src/services/aiService.ts, and the workflow chat modal with             *)
(* postToWebhook.                                                          *)
(*                                                                         *)
(* Text is a sequence of atoms (an atom is a short string): concatenation  *)
(* is \o, trim() strips the " " atoms at both ends, replace(/"/g,'')       *)
(* removes the Quote atoms.  Date.now() is the variable now.  One action   *)
(* is one run-to-completion stretch of JavaScript: a handler from its      *)
(* entry to its first pending await, or the continuation of an await up    *)
(* to the next one.                                                        *)
(***************************************************************************)
EXTENDS Integers, Sequences, FiniteSets, TLC

VARIABLES
    conversations,          \* AppProvider: useLocalStorage('conversations'), state = localStorage
    activeConversationId,   \* AppProvider: useLocalStorage('activeConversationId'); 0 is null
    input,                  \* Chat: useState('')
    isLoading,              \* Chat: useState(false)
    error,                  \* Chat: useState(null); <<>> is null
    now,                    \* Date.now(); a millisecond passes with every user event
                            \* and every network answer that reads the clock
    turns,                  \* the handleSend invocations so far, each with its closure
    settings,               \* which provider API keys getApiKeys() finds
    lastSend,               \* how the latest Chat.handleSend call returned
    route,                  \* the page on screen: "/chat" or "/workflows"
    wf,                     \* WorkflowChatModal: its state and its handleSend invocation
    clients,                \* aiService: the stored provider keys and the client requests made
    lastOp,                 \* the store operation the latest step was, if it was one
    call                    \* aiService: a conversation handed to streamChat, and what was requested

vars == <<conversations, activeConversationId, input, isLoading, error,
          now, turns, settings, lastSend, route, wf, clients, lastOp, call>>

----------------------------------------------------------------------------
(* Bounds of the model *)

MaxTurns == 2     \* handleSend invocations of a session
MaxSolo == 1      \* handleSend invocations of a short session (SpecSolo)
MaxChunks == 2    \* chunks a provider stream yields
MaxPosts == 2     \* handleSend invocations of the workflow chat modal
MaxKey == 2       \* the values a provider key takes (0 is no key)
MaxRequests == 3  \* client requests of a session
MaxChats == 3     \* conversations in the store
MaxChatId == 4    \* the latest time at which a conversation is created
MaxMessages == 2  \* messages of a conversation handed to an adapter

----------------------------------------------------------------------------
(* Text *)

Quote == "\""
NewChat == <<"New Chat">>
ErrorPrefix == <<"Error: ">>

RECURSIVE DropLeadingSpaces(_)
DropLeadingSpaces(s) ==
    IF s # <<>> /\ Head(s) = " " THEN DropLeadingSpaces(Tail(s)) ELSE s

RECURSIVE DropTrailingSpaces(_)
DropTrailingSpaces(s) ==
    IF s # <<>> /\ s[Len(s)] = " "
    THEN DropTrailingSpaces(SubSeq(s, 1, Len(s) - 1))
    ELSE s

Trim(s) == DropTrailingSpaces(DropLeadingSpaces(s))

RECURSIVE StripQuotes(_)
StripQuotes(s) ==
    IF s = <<>> THEN <<>>
    ELSE IF Head(s) = Quote THEN StripQuotes(Tail(s))
    ELSE <<Head(s)>> \o StripQuotes(Tail(s))

StartsWith(s, prefix) == Len(s) >= 1 /\ s[1] = prefix

(* What the user can type, what a provider can answer.  An OpenAI chunk may
   carry no content (the first and the last chunk of a completion do not); a
   Gemini chunk is taken to carry text. *)
Inputs == { <<>>, <<" ">>, <<"hi">> }
ChunkTexts(provider) ==
    IF provider = "openai" THEN { <<"a">>, <<>> } ELSE { <<"a">> }
TitleTexts == { <<Quote, "T", Quote, " ">> }

\* what the user can type as a new title, and the settings the sidebar sets
RenameTitles == { <<" ">>, <<" ", "R">> }
SettingsUpdates ==
    { [field |-> "temperature", value |-> 0], [field |-> "temperature", value |-> 100],
      [field |-> "systemPrompt", value |-> <<"P">>] }

Undefined == <<"undefined">>
Models == { <<"gemini-", "2.5-flash">>, <<"gpt-", "4o">>, <<"llama-", "unknown">> }

----------------------------------------------------------------------------
(* Messages and conversations *)

Message(id, role, content, isThinking) ==
    [id |-> id, role |-> role, content |-> content, isThinking |-> isThinking]

\* temperature and topP are counted in hundredths: 70 is 0.7
DefaultPrompt == <<"You are a helpful AI assistant.">>
DefaultTemperature == 70
DefaultTopP == 95

NewConversation(id, model) ==
    [id |-> id, title |-> NewChat, messages |-> <<>>, model |-> model,
     systemPrompt |-> DefaultPrompt, temperature |-> DefaultTemperature,
     topP |-> DefaultTopP]

HasConv(store, id) == \E i \in DOMAIN store : store[i].id = id

\* conversations.find(c => c.id === id): the first match
ConvById(store, id) ==
    store[CHOOSE i \in DOMAIN store :
              /\ store[i].id = id
              /\ \A j \in DOMAIN store : store[j].id = id => i <= j]

\* messages.slice(0, -1)
SliceButLast(s) == IF s = <<>> THEN <<>> ELSE SubSeq(s, 1, Len(s) - 1)

AppendMessage(c, m) == [c EXCEPT !.messages = Append(@, m)]

\* { ...c, messages: [...c.messages.slice(0, -1), m] }
ReplaceLast(c, m) == [c EXCEPT !.messages = Append(SliceButLast(@), m)]

\* the later-chunk update: the last message, if there is one, gets the content
SetLastContent(c, content) ==
    IF c.messages = <<>> THEN c
    ELSE [c EXCEPT !.messages[Len(c.messages)].content = content]

\* The functional updates handleSend passes to setConversations,
\*     prev => prev.map(c => c.id === id ? <op on c> : c)
\* with op one of "replace" (by the conversation arg), "append" and
\* "replaceLast" (the message arg), "content" (the content arg of the last
\* message); handleRenameChat passes "title" (the title arg) and
\* updateConversationSettings "merge" (the field and value of arg).
Updater(id, op, arg) == [conv |-> id, op |-> op, arg |-> arg]

\* what the updater makes of the conversation it matches
Updated(c, f) ==
    CASE f.op = "replace" -> f.arg
      [] f.op = "append" -> AppendMessage(c, f.arg)
      [] f.op = "replaceLast" -> ReplaceLast(c, f.arg)
      [] f.op = "content" -> SetLastContent(c, f.arg)
      [] f.op = "title" -> [c EXCEPT !.title = f.arg]
      [] f.op = "merge" -> [c EXCEPT ![f.arg.field] = f.arg.value]

\* f(prev)
MapConv(f, prev) ==
    [i \in DOMAIN prev |-> IF prev[i].id = f.conv THEN Updated(prev[i], f) ELSE prev[i]]

\* a filter that drops the first conversation, whichever id is asked for
DropFirst(f, prev) == Tail(prev)

\* prev => prev.filter(c => c.id !== id)
Filter(f, prev) == SelectSeq(prev, LAMBDA c : c.id # f.conv)

\* prev => [newConversation, ...prev]
Prepend(f, prev) == <<f.arg>> \o prev

\* useLocalStorage.setValue with a functional update: the update is applied
\* to the storedValue of the render whose closure holds this setter.
setValue(value, storedValue) ==
    CASE value.op = "filter" -> Filter(value, storedValue)
      [] value.op = "prepend" -> Prepend(value, storedValue)
      [] OTHER -> MapConv(value, storedValue)

\* several setValue calls in one synchronous stretch: state and localStorage
\* end as the last value written
LastWrite(writes) == writes[Len(writes)]

----------------------------------------------------------------------------
(* src/services/aiService.ts *)

Err(message) == [isError |-> TRUE, message |-> message]

GeminiKeyMissing ==
    Err(<<"Gemini API key is not configured. Please use an OpenAI model instead or configure your Gemini API key.">>)
OpenAIKeyMissing ==
    Err(<<"OpenAI API key is not configured. Please set OPENAI_API_KEY in your environment variables.">>)
GeminiFailed == Err(<<"Failed to get response from Gemini model.">>)
OpenAIFailed == Err(<<"Failed to get response from OpenAI model.">>)
ModelUndefined == Err(<<"Cannot read properties of undefined (reading 'startsWith')">>)

\* what a provider stream can throw while it is consumed: an Error, or a
\* value that is no Error
StreamThrows == { Err(<<"network down">>), [isError |-> FALSE, message |-> <<>>] }

\* a client that is built whether or not a key is stored
ClientWithoutKey(keys) == TRUE

\* getGeminiClient / getOpenAIClient: null without a key
getGeminiClient(keys) == keys.gemini
getOpenAIClient(keys) == keys.openai

\* streamChat up to its first network call: the provider whose stream is
\* requested, or the error thrown before any request
streamChat(conversation, keys) ==
    IF conversation.model = Undefined
    THEN [kind |-> "throw", provider |-> "none", error |-> ModelUndefined]
    ELSE IF StartsWith(conversation.model, "gpt-")
    THEN IF ~getOpenAIClient(keys)
         THEN [kind |-> "throw", provider |-> "none", error |-> OpenAIKeyMissing]
         ELSE [kind |-> "request", provider |-> "openai", error |-> Err(<<>>)]
    ELSE IF ~getGeminiClient(keys)
         THEN [kind |-> "throw", provider |-> "none", error |-> GeminiKeyMissing]
         ELSE [kind |-> "request", provider |-> "gemini", error |-> Err(<<>>)]

\* messages.slice(0, -1).filter(m => m.role === 'user' || m.role === 'model')
PriorTurns(messages) ==
    SelectSeq(SliceButLast(messages), LAMBDA m : m.role \in {"user", "model"})

\* streamGeminiChat: what chats.create and sendMessageStream are given
streamGeminiChat(conversation) ==
    LET prior == PriorTurns(conversation.messages)
        lastMessage == conversation.messages[Len(conversation.messages)]
    IN [provider |-> "gemini",
        model |-> conversation.model,
        systemInstruction |-> conversation.systemPrompt,
        temperature |-> conversation.temperature,
        topP |-> conversation.topP,
        history |-> [i \in DOMAIN prior |-> [role |-> prior[i].role, content |-> prior[i].content]],
        message |-> lastMessage.content]

\* m.role === 'model' ? 'assistant' : m.role
OpenAIRole(role) == IF role = "model" THEN "assistant" ELSE role

\* streamOpenAIChat: what chat.completions.create is given
streamOpenAIChat(conversation) ==
    LET messages == conversation.messages
    IN [provider |-> "openai",
        model |-> conversation.model,
        messages |-> <<[role |-> "system", content |-> conversation.systemPrompt]>>
                     \o [i \in DOMAIN messages |->
                            [role |-> OpenAIRole(messages[i].role), content |-> messages[i].content]],
        temperature |-> conversation.temperature,
        topP |-> conversation.topP]

\* what streamChat asks of the provider it dispatches to, for a conversation
\* with a message; NoRequest when it throws before any request
NoRequest == [provider |-> "none"]
Request(conversation, keys) ==
    LET stream == streamChat(conversation, keys)
    IN IF stream.kind # "request" THEN NoRequest
       ELSE IF stream.provider = "openai" THEN streamOpenAIChat(conversation)
       ELSE streamGeminiChat(conversation)

\* the adapter's catch around the request that opens the stream
OpenFailure(provider) == IF provider = "openai" THEN OpenAIFailed ELSE GeminiFailed

\* streamOpenAIChat's generator yields a chunk only when its content is
\* truthy; the Gemini stream is handed to the caller as it is
Yields(provider, text) == provider = "gemini" \/ text # <<>>

\* getTitleForChat(firstMessage) with the default model: the provider the
\* title is requested from, "none" when no client can be built
TitleProvider(keys) ==
    IF getGeminiClient(keys) THEN "gemini"
    ELSE IF getOpenAIClient(keys) THEN "openai"
    ELSE "none"

\* getTitleForChat's value for a provider answer
TitleOf(provider, text) ==
    LET t == Trim(StripQuotes(text))
    IN IF provider = "openai" /\ t = <<>> THEN NewChat ELSE t

\* getTitleForChat's value when the request throws, or no client exists
TitleFallback == NewChat

----------------------------------------------------------------------------
(* src/App.tsx, Chat *)

\* the try block of handleSend covers these failure sites
TryCovers == { "dispatch", "open", "stream" }

\* a guard that tests the text without trimming it
SendRejectedUntrimmed(text, loading, hasActive) ==
    text = <<>> \/ loading \/ ~hasActive

\* handleSend's first line: return without doing anything
SendRejected(text, loading, hasActive) ==
    Trim(text) = <<>> \/ loading \/ ~hasActive

\* e instanceof Error ? e.message : "An unknown error occurred."
ErrorText(e) == IF e.isError THEN e.message ELSE <<"An unknown error occurred.">>

InFlight(tr) == tr.pc \in {"title", "opening", "streaming"}
Ended(tr) == tr.pc \in {"done", "errored", "threw"}

\* no store operation
NoOp == [op |-> "none", id |-> 0]

\* streamChat has not been called
NotCalled == [provider |-> "not called"]
NoCall == [conversation |-> NewConversation(0, Undefined), result |-> NotCalled]

\* the keys localStorage 'settings' holds for the keys getApiKeys() finds (a
\* key is a number, 0 is no key), no client built, no request made
Clients(keys) ==
    [key |-> [gemini |-> IF keys.gemini THEN 1 ELSE 0,
              openai |-> IF keys.openai THEN 1 ELSE 0],
     built |-> 0, requests |-> <<>>]

\* <WorkflowChatModal /> as it mounts; makeApiKey is whether the stored
\* Make.com key is a non-empty string (its default is one)
WorkflowChat(makeApiKey) ==
    [messages |-> <<>>, input |-> <<>>, isLoading |-> FALSE,
     makeApiKey |-> makeApiKey, posts |-> <<>>]

TypeOK ==
    /\ now \in Nat
    /\ isLoading \in BOOLEAN
    /\ input \in Inputs
    /\ Len(turns) <= MaxTurns
    /\ route \in {"/chat", "/workflows", "/settings"}
    /\ Len(clients.requests) <= MaxRequests
    /\ wf.isLoading \in BOOLEAN
    /\ wf.input \in Inputs
    /\ Len(wf.posts) <= MaxPosts

Init ==
    /\ conversations \in { <<NewConversation(1, m)>> : m \in Models \cup {Undefined} }
    /\ activeConversationId = 0
    /\ input = <<>>
    /\ isLoading = FALSE
    /\ error = <<>>
    /\ now = 1
    /\ turns = <<>>
    /\ settings \in [gemini : BOOLEAN, openai : BOOLEAN]
    /\ lastSend = "none"
    /\ route = "/chat"
    /\ wf = WorkflowChat(TRUE)
    /\ clients = Clients(settings)
    /\ lastOp = NoOp
    /\ call = NoCall

\* a click on a conversation of the sidebar
SelectConversation ==
    /\ route = "/chat"
    /\ \E i \in DOMAIN conversations :
          /\ activeConversationId # conversations[i].id
          /\ activeConversationId' = conversations[i].id
    /\ UNCHANGED <<conversations, input, isLoading, error, now, turns,
                   settings>>
    /\ lastSend' = "none"
    /\ lastOp' = NoOp
    /\ UNCHANGED call
    /\ UNCHANGED <<route, wf, clients>>

\* typing into the input, which is rendered for an active conversation and
\* disabled while isLoading
SetInput ==
    /\ route = "/chat"
    /\ HasConv(conversations, activeConversationId)
    /\ ~isLoading
    /\ \E text \in Inputs : text # input /\ input' = text
    /\ UNCHANGED <<conversations, activeConversationId, isLoading, error,
                   now, turns, settings>>
    /\ lastSend' = "none"
    /\ lastOp' = NoOp
    /\ UNCHANGED call
    /\ UNCHANGED <<route, wf, clients>>

\* leaving the /chat route and coming back: the invocations in flight belong to
\* an unmounted <Chat />, the new one starts with fresh state
Remount ==
    /\ route = "/chat"
    /\ turns' = [t \in DOMAIN turns |-> [turns[t] EXCEPT !.mounted = FALSE]]
    /\ input' = <<>>
    /\ isLoading' = FALSE
    /\ error' = <<>>
    /\ UNCHANGED <<conversations, activeConversationId, now, settings>>
    /\ lastSend' = "none"
    /\ lastOp' = NoOp
    /\ UNCHANGED call
    /\ UNCHANGED <<route, wf, clients>>

\* New Chat: a conversation without a model is put first and made active
createNewChat ==
    /\ route = "/chat"
    /\ Len(conversations) < MaxChats
    /\ now < MaxChatId
    /\ LET newConversation == NewConversation(now + 1, Undefined)
       IN /\ conversations' = setValue(Updater(0, "prepend", newConversation), conversations)
          /\ activeConversationId' = newConversation.id
          /\ lastOp' = [op |-> "create", id |-> newConversation.id]
          /\ UNCHANGED call
    /\ now' = now + 1
    /\ lastSend' = "none"
    /\ UNCHANGED <<input, isLoading, error, turns, settings, route, wf, clients>>

\* the deletion of a conversation of the sidebar is confirmed
handleDeleteChat ==
    /\ route = "/chat"
    /\ \E i \in DOMAIN conversations :
          LET id == conversations[i].id
          IN /\ conversations' = setValue(Updater(id, "filter", <<>>), conversations)
             /\ activeConversationId' = IF activeConversationId = id THEN 0
                                        ELSE activeConversationId
             /\ lastOp' = [op |-> "delete", id |-> id]
             /\ UNCHANGED call
    /\ lastSend' = "none"
    /\ UNCHANGED <<input, isLoading, error, now, turns, settings, route, wf, clients>>

\* Save in the rename dialog of a conversation of the sidebar
handleRenameChat ==
    /\ route = "/chat"
    /\ \E i \in DOMAIN conversations, newTitle \in RenameTitles :
          LET chatToRename == conversations[i]
          IN /\ Trim(newTitle) # <<>>
             /\ chatToRename.title # Trim(newTitle)
             /\ conversations' =
                   setValue(Updater(chatToRename.id, "title", Trim(newTitle)), conversations)
             /\ lastOp' = [op |-> "rename", id |-> chatToRename.id]
    /\ lastSend' = "none"
    /\ UNCHANGED <<activeConversationId, input, isLoading, error, now, turns,
                   settings, route, wf, clients, call>>

\* a change in the settings sidebar of the active conversation
updateConversationSettings ==
    /\ route = "/chat"
    /\ HasConv(conversations, activeConversationId)
    /\ \E updates \in SettingsUpdates :
          /\ ConvById(conversations, activeConversationId)[updates.field] # updates.value
          /\ conversations' =
                setValue(Updater(activeConversationId, "merge", updates), conversations)
    /\ lastSend' = "none"
    /\ lastOp' = [op |-> "settings", id |-> activeConversationId]
    /\ UNCHANGED <<activeConversationId, input, isLoading, error, now, turns,
                   settings, route, wf, clients, call>>

\* Clear All Data, confirmed on the Settings page, and the way back to the
\* chat: the <Chat /> that was on screen is unmounted, the new one finds the
\* store empty
clearAllData ==
    /\ route = "/chat"
    /\ conversations # <<>>
    /\ conversations' = <<>>
    /\ activeConversationId' = 0
    /\ wf' = [wf EXCEPT !.makeApiKey = FALSE]
    /\ turns' = [t \in DOMAIN turns |-> [turns[t] EXCEPT !.mounted = FALSE]]
    /\ input' = <<>>
    /\ isLoading' = FALSE
    /\ error' = <<>>
    /\ lastSend' = "none"
    /\ lastOp' = [op |-> "clear", id |-> 0]
    /\ UNCHANGED <<now, settings, route, clients, call>>

----------------------------------------------------------------------------
(* handleSend *)

\* the closure of one handleSend invocation
NewTurn(ac, store, text, time) ==
    [conv |-> ac.id, mounted |-> TRUE, snap |-> store, text |-> text,
     userId |-> time, before |-> Len(ac.messages), first |-> (ac.messages = <<>>),
     pc |-> "start",
     titleProvider |-> "none", titleResult |-> "none", autoTitle |-> <<>>,
     phId |-> 0,
     provider |-> "none", fullResponse |-> <<>>, firstChunk |-> TRUE,
     chunks |-> 0, received |-> <<>>]

\* the invocation has returned: its closure is dropped
Return(tr, pc) == [tr EXCEPT !.pc = pc, !.snap = <<>>]

\* the user message, conversationToUpdate
UserMessage(tr) == Message(tr.userId, "user", tr.text, FALSE)

ConversationToUpdate(tr, autoTitle) ==
    LET activeConversation == ConvById(tr.snap, tr.conv)
    IN IF tr.first
       THEN [activeConversation EXCEPT
                !.title = autoTitle, !.messages = Append(@, UserMessage(tr))]
       ELSE [activeConversation EXCEPT !.messages = Append(@, UserMessage(tr))]

ErrorMessage(tr, e) == Message(tr.phId, "model", ErrorPrefix \o ErrorText(e), FALSE)

\* a catch block that appends the error text to the content streamed so far
ErrorStoreKeepingPartial(tr, e) ==
    setValue(Updater(tr.conv, "content", tr.fullResponse \o ErrorPrefix \o ErrorText(e)),
             tr.snap)

\* the store after the catch block's setConversations
ErrorStore(tr, e) ==
    setValue(Updater(tr.conv, "replaceLast", ErrorMessage(tr, e)), tr.snap)

\* the state setters of a <Chat /> that is no longer mounted do nothing
Mounted(tr) == tr.mounted

\* handleSend from the line after the title (or from the else branch) to the
\* await of streamChat, and through catch and finally when streamChat throws
\* before it requests anything.  base is turns with this invocation at t.
Continue(t, base, tr0, titleResult, autoTitle, time) ==
    LET conversationToUpdate == ConversationToUpdate(tr0, autoTitle)
        tr == [tr0 EXCEPT !.titleResult = titleResult, !.autoTitle = autoTitle,
                          !.phId = time + 1]
        modelThinkingMessage == Message(tr.phId, "model", <<>>, TRUE)
        store1 == setValue(Updater(tr.conv, "replace", conversationToUpdate), tr.snap)
        store2 == setValue(Updater(tr.conv, "append", modelThinkingMessage), tr.snap)
        stream == streamChat(conversationToUpdate, settings)
    IN IF stream.kind = "request"
       THEN /\ conversations' = LastWrite(<<store1, store2>>)
            /\ turns' = [base EXCEPT ![t] = [tr EXCEPT !.pc = "opening", !.provider = stream.provider]]
            /\ input' = IF Mounted(tr) THEN <<>> ELSE input
            /\ isLoading' = IF Mounted(tr) THEN TRUE ELSE isLoading
            /\ error' = IF Mounted(tr) THEN <<>> ELSE error
       ELSE IF "dispatch" \in TryCovers
       THEN /\ conversations' = LastWrite(<<store1, store2, ErrorStore(tr, stream.error)>>)
            /\ turns' = [base EXCEPT ![t] = Return(tr, "errored")]
            /\ input' = IF Mounted(tr) THEN <<>> ELSE input
            /\ isLoading' = IF Mounted(tr) THEN FALSE ELSE isLoading
            /\ error' = IF Mounted(tr) THEN ErrorText(stream.error) ELSE error
       ELSE /\ conversations' = LastWrite(<<store1, store2>>)
            /\ turns' = [base EXCEPT ![t] = Return(tr, "threw")]
            /\ input' = IF Mounted(tr) THEN <<>> ELSE input
            /\ isLoading' = IF Mounted(tr) THEN TRUE ELSE isLoading
            /\ error' = IF Mounted(tr) THEN <<>> ELSE error

\* a click on Send or Enter in the input; bound is the model's limit on the
\* invocations of a session
handleSendUpTo(bound) ==
    /\ route = "/chat"
    /\ LET hasActive == HasConv(conversations, activeConversationId)
       IN IF SendRejected(input, isLoading, hasActive)
          THEN /\ lastSend' = "rejected"
               /\ lastOp' = NoOp
               /\ UNCHANGED call
               /\ UNCHANGED <<conversations, activeConversationId, input, isLoading,
                              error, now, turns, settings, route, wf, clients>>
          ELSE /\ Len(turns) < bound
               /\ hasActive
               /\ lastSend' = "accepted"
               /\ lastOp' = NoOp
               /\ UNCHANGED call
               /\ UNCHANGED <<route, wf, clients>>
               /\ LET activeConversation == ConvById(conversations, activeConversationId)
                      t == Len(turns) + 1
                      tr == NewTurn(activeConversation, conversations, input, now + 1)
                      titleFrom == TitleProvider(settings)
                  IN IF tr.first /\ titleFrom # "none"
                     THEN /\ turns' = Append(turns, [tr EXCEPT !.pc = "title", !.titleProvider = titleFrom])
                          /\ UNCHANGED <<conversations, input, isLoading, error>>
                     ELSE Continue(t, Append(turns, tr), tr,
                                   IF tr.first THEN "noclient" ELSE "none",
                                   IF tr.first THEN TitleFallback ELSE <<>>, now + 1)
               /\ now' = now + 1
               /\ UNCHANGED <<activeConversationId, settings>>

handleSend == handleSendUpTo(MaxTurns)

handleSendSolo == handleSendUpTo(MaxSolo)

\* the title request answers
TitleAnswers ==
    \E t \in DOMAIN turns :
        /\ turns[t].pc = "title"
        /\ \E text \in TitleTexts :
              Continue(t, turns, turns[t], "answered",
                       TitleOf(turns[t].titleProvider, text), now + 1)
        /\ now' = now + 1
        /\ UNCHANGED <<activeConversationId, settings>>
        /\ lastSend' = "none"
        /\ lastOp' = NoOp
        /\ UNCHANGED call
        /\ UNCHANGED <<route, wf, clients>>

\* the title request throws: getTitleForChat catches and returns "New Chat"
TitleFails ==
    \E t \in DOMAIN turns :
        /\ turns[t].pc = "title"
        /\ Continue(t, turns, turns[t], "failed", TitleFallback, now + 1)
        /\ now' = now + 1
        /\ UNCHANGED <<activeConversationId, settings>>
        /\ lastSend' = "none"
        /\ lastOp' = NoOp
        /\ UNCHANGED call
        /\ UNCHANGED <<route, wf, clients>>

\* the catch and finally blocks for an error thrown at site after dispatch
Catch(t, site, e) ==
    LET tr == turns[t]
    IN IF site \in TryCovers
       THEN /\ conversations' = ErrorStore(tr, e)
            /\ turns' = [turns EXCEPT ![t] = Return(tr, "errored")]
            /\ isLoading' = IF Mounted(tr) THEN FALSE ELSE isLoading
            /\ error' = IF Mounted(tr) THEN ErrorText(e) ELSE error
       ELSE /\ turns' = [turns EXCEPT ![t] = Return(tr, "threw")]
            /\ UNCHANGED <<conversations, isLoading, error>>

\* the provider accepts the request: streamChat resolves with the stream
StreamOpens ==
    \E t \in DOMAIN turns :
        /\ turns[t].pc = "opening"
        /\ turns' = [turns EXCEPT ![t].pc = "streaming"]
        /\ UNCHANGED <<conversations, activeConversationId, input, isLoading, error,
                       now, settings>>
        /\ lastSend' = "none"
        /\ lastOp' = NoOp
        /\ UNCHANGED call
        /\ UNCHANGED <<route, wf, clients>>

\* the request fails: the adapter throws its own Error
StreamOpenFails ==
    \E t \in DOMAIN turns :
        /\ turns[t].pc = "opening"
        /\ Catch(t, "open", OpenFailure(turns[t].provider))
        /\ UNCHANGED <<activeConversationId, input, now, settings>>
        /\ lastSend' = "none"
        /\ lastOp' = NoOp
        /\ UNCHANGED call
        /\ UNCHANGED <<route, wf, clients>>

\* the provider sends a chunk; the loop body runs for a chunk that is yielded,
\* and a chunk the adapter does not yield changes nothing
StreamChunk ==
    \E t \in DOMAIN turns :
        /\ turns[t].pc = "streaming"
        /\ turns[t].chunks < MaxChunks
        /\ \E text \in ChunkTexts(turns[t].provider) :
              LET tr == turns[t]
                  fullResponse == tr.fullResponse \o text
                  finalModelMessage == Message(tr.phId, "model", fullResponse, FALSE)
              IN IF ~Yields(tr.provider, text)
                 THEN UNCHANGED <<turns, conversations>>
                 ELSE /\ turns' = [turns EXCEPT ![t].chunks = @ + 1,
                                                ![t].fullResponse = fullResponse,
                                                ![t].firstChunk = FALSE,
                                                ![t].received = Append(@, text)]
                      /\ conversations' =
                            IF tr.firstChunk
                            THEN setValue(Updater(tr.conv, "replaceLast", finalModelMessage), tr.snap)
                            ELSE setValue(Updater(tr.conv, "content", fullResponse), tr.snap)
        /\ UNCHANGED <<activeConversationId, input, isLoading, error, now,
                       settings>>
        /\ lastSend' = "none"
        /\ lastOp' = NoOp
        /\ UNCHANGED call
        /\ UNCHANGED <<route, wf, clients>>

\* the stream ends: the loop is left, finally runs
StreamEnds ==
    \E t \in DOMAIN turns :
        /\ turns[t].pc = "streaming"
        /\ turns' = [turns EXCEPT ![t] = Return(turns[t], "done")]
        /\ isLoading' = IF Mounted(turns[t]) THEN FALSE ELSE isLoading
        /\ UNCHANGED <<conversations, activeConversationId, input, error,
                       now, settings>>
        /\ lastSend' = "none"
        /\ lastOp' = NoOp
        /\ UNCHANGED call
        /\ UNCHANGED <<route, wf, clients>>

\* the stream throws while it is consumed
StreamFails ==
    \E t \in DOMAIN turns :
        /\ turns[t].pc = "streaming"
        /\ \E e \in StreamThrows : Catch(t, "stream", e)
        /\ UNCHANGED <<activeConversationId, input, now, settings>>
        /\ lastSend' = "none"
        /\ lastOp' = NoOp
        /\ UNCHANGED call
        /\ UNCHANGED <<route, wf, clients>>

----------------------------------------------------------------------------
(* src/services/aiService.ts, postToWebhook *)

MakeKeyMissing == <<"Make.com API key is not configured. Please set it in Settings.">>
AuthFailed == <<"Authentication failed (401). Please check that your Make.com API key in Settings is correct and valid for the webhook URL.">>
WebhookUnknown == <<"An unknown error occurred while contacting the workflow.">>
NoContent == <<"Workflow executed successfully (no content returned).">>
JsonType == <<"application/json">>

\* JSON.parse of a body: an object is written "{" field value... "}", and the
\* field "text:" carries a string value (no atom: the empty string)
JSONparse(raw) ==
    IF Len(raw) >= 2 /\ raw[1] = "{" /\ raw[Len(raw)] = "}"
    THEN [valid |-> TRUE,
          text |-> IF Len(raw) >= 3 /\ raw[2] = "text:"
                   THEN SubSeq(raw, 3, Len(raw) - 1) ELSE <<>>]
    ELSE [valid |-> FALSE, text |-> <<>>]

\* JSON.stringify(value, null, 2) of a parsed body: the fields on lines of
\* their own
JSONstringify(raw) ==
    <<"{", "\n  ">> \o SubSeq(raw, 2, Len(raw) - 1) \o <<"\n", "}">>

Response(ok, status, statusText, contentType, body) ==
    [kind |-> "response", ok |-> ok, status |-> status, statusText |-> statusText,
     contentType |-> contentType, body |-> body]

FetchThrows(e) == [kind |-> "throw", error |-> e]

\* no request was made
NoFetch == [kind |-> "none"]

\* what fetch can do with the POST
FetchResults ==
    { FetchThrows(Err(<<"Failed to fetch">>)),
      FetchThrows([isError |-> FALSE, message |-> <<>>]),
      Response(FALSE, "401", <<"Unauthorized">>, <<>>, <<>>),
      Response(FALSE, "404", <<"Not Found">>, <<>>, <<>>),
      Response(FALSE, "500", <<>>, <<>>, <<"oops">>),
      Response(TRUE, "200", <<"OK">>, <<>>, <<>>),
      Response(TRUE, "200", <<"OK">>, <<"text/plain">>, <<"Accepted">>),
      Response(TRUE, "200", <<"OK">>, JsonType, <<"{", "text:", "hi", "}">>),
      Response(TRUE, "200", <<"OK">>, JsonType, <<"{", "text:", "}">>),
      Response(TRUE, "200", <<"OK">>, JsonType, <<"{", "ok:", "1", "}">>),
      Response(TRUE, "200", <<"OK">>, JsonType, <<"Accepted">>) }

Returns(text) == [kind |-> "return", text |-> text]
Throws(e) == [kind |-> "throw", error |-> e]

\* postToWebhook(url, message, apiKey) once fetch has settled with result
\* (result is not looked at when the key is missing)
postToWebhook(apiKey, result) ==
    IF ~apiKey THEN Throws(Err(MakeKeyMissing))
    ELSE IF result.kind = "throw"
    THEN Throws(IF result.error.isError THEN result.error ELSE Err(WebhookUnknown))
    ELSE IF ~result.ok
    THEN IF result.status = "401"
         THEN Throws(Err(AuthFailed))
         ELSE Throws(Err(<<"Webhook request failed: ", result.status, " ">>
                         \o (IF result.statusText = <<>>
                             THEN <<"An error occurred">> ELSE result.statusText)))
    ELSE IF result.body = <<>> THEN Returns(NoContent)
    ELSE IF result.contentType = JsonType
    THEN LET jsonResponse == JSONparse(result.body)
         IN IF ~jsonResponse.valid THEN Returns(result.body)
            ELSE IF jsonResponse.text # <<>> THEN Returns(jsonResponse.text)
            ELSE Returns(JSONstringify(result.body))
    ELSE Returns(result.body)

----------------------------------------------------------------------------
(* src/App.tsx, WorkflowChatModal *)

\* error instanceof Error ? error.message : 'Unknown error'
WorkflowErrorText(e) == IF e.isError THEN e.message ELSE <<"Unknown error">>

\* the try / catch / finally of the modal's handleSend once postToWebhook has
\* settled, applied to the modal's state: messages and isLoading are left
\* alone when the modal that made the call is no longer mounted
Settle(modal, post, outcome, time) ==
    LET content == IF outcome.kind = "return" THEN outcome.text
                   ELSE ErrorPrefix \o WorkflowErrorText(outcome.error)
        message == Message(time + 1, "workflow", content, FALSE)
    IN [modal EXCEPT
          !.messages = IF post.mounted THEN Append(@, message) ELSE @,
          !.isLoading = IF post.mounted THEN FALSE ELSE @]

Settled(post, outcome) ==
    [post EXCEPT !.pc = IF outcome.kind = "return" THEN "done" ELSE "errored",
                 !.outcome = outcome]

\* typing into the modal's input
WorkflowSetInput ==
    /\ route = "/workflows"
    /\ \E text \in Inputs : text # wf.input /\ wf' = [wf EXCEPT !.input = text]
    /\ lastSend' = "none"
    /\ lastOp' = NoOp
    /\ UNCHANGED call
    /\ UNCHANGED <<conversations, activeConversationId, input, isLoading, error,
                   now, turns, settings, route, clients>>

\* the modal is closed and opened again: the invocations in flight belong to
\* the unmounted modal, the new one starts with fresh state
onClose ==
    /\ route = "/workflows"
    /\ wf' = [WorkflowChat(wf.makeApiKey) EXCEPT
                 !.posts = [p \in DOMAIN wf.posts |-> [wf.posts[p] EXCEPT !.mounted = FALSE]]]
    /\ lastSend' = "none"
    /\ lastOp' = NoOp
    /\ UNCHANGED call
    /\ UNCHANGED <<conversations, activeConversationId, input, isLoading, error,
                   now, turns, settings, route, clients>>

\* a click on the modal's Send or Enter in its input
WorkflowHandleSend ==
    /\ route = "/workflows"
    /\ IF Trim(wf.input) = <<>> \/ wf.isLoading
       THEN /\ lastSend' = "rejected"
            /\ lastOp' = NoOp
            /\ UNCHANGED call
            /\ UNCHANGED <<now, wf>>
       ELSE /\ Len(wf.posts) < MaxPosts
            /\ lastSend' = "accepted"
            /\ lastOp' = NoOp
            /\ UNCHANGED call
            /\ now' = now + 1
            /\ LET userMessage == Message(now + 1, "user", wf.input, FALSE)
                   post == [mounted |-> TRUE, text |-> wf.input, pc |-> "posting",
                            result |-> NoFetch, outcome |-> NoFetch]
                   sent == [wf EXCEPT !.messages = Append(@, userMessage),
                                      !.input = <<>>, !.isLoading = TRUE]
                   outcome == postToWebhook(wf.makeApiKey, NoFetch)
               IN IF wf.makeApiKey
                  THEN wf' = [sent EXCEPT !.posts = Append(@, post)]
                  ELSE wf' = [Settle(sent, post, outcome, now + 1) EXCEPT
                                 !.posts = Append(@, Settled(post, outcome))]
    /\ UNCHANGED <<conversations, activeConversationId, input, isLoading, error,
                   turns, settings, route, clients>>

\* fetch settles for a post in flight; the invocation keeps what fetch gave
\* and what postToWebhook made of it
WebhookSettles ==
    \E p \in DOMAIN wf.posts :
        /\ wf.posts[p].pc = "posting"
        /\ \E result \in FetchResults :
              LET outcome == postToWebhook(wf.makeApiKey, result)
              IN wf' = [Settle(wf, wf.posts[p], outcome, now + 1) EXCEPT
                           !.posts[p] = [Settled(wf.posts[p], outcome) EXCEPT
                                            !.result = result]]
        /\ now' = now + 1
        /\ lastSend' = "none"
        /\ lastOp' = NoOp
        /\ UNCHANGED call
        /\ UNCHANGED <<conversations, activeConversationId, input, isLoading, error,
                       turns, settings, route, clients>>

----------------------------------------------------------------------------
(* src/services/aiService.ts, the provider clients *)

Providers == {"gemini", "openai"}

\* new GoogleGenAI({ apiKey }) / new OpenAI({ apiKey }): the n-th object built
NewClient(provider, apiKey, n) == [provider |-> provider, apiKey |-> apiKey, handle |-> n]

\* null
NoClient(provider) == [provider |-> provider, apiKey |-> 0, handle |-> 0]

\* getGeminiClient() / getOpenAIClient() with the key getApiKeys() reads now,
\* after built clients have been constructed
getClient(provider, apiKey, built) ==
    IF apiKey = 0 THEN NoClient(provider) ELSE NewClient(provider, apiKey, built + 1)

\* localStorage 'settings' gets another key for a provider (or loses it)
StoreKey ==
    /\ route = "/settings"
    /\ \E provider \in Providers, k \in 0..MaxKey :
          /\ k # clients.key[provider]
          /\ clients' = [clients EXCEPT !.key[provider] = k]
          /\ settings' = [settings EXCEPT ![provider] = (k # 0)]
    /\ lastSend' = "none"
    /\ lastOp' = NoOp
    /\ UNCHANGED call
    /\ UNCHANGED <<conversations, activeConversationId, input, isLoading, error,
                   now, turns, route, wf>>

\* a caller (streamChat, getTitleForChat) asks for the client of a provider
RequestClient ==
    /\ route = "/settings"
    /\ Len(clients.requests) < MaxRequests
    /\ \E provider \in Providers :
          LET client == getClient(provider, clients.key[provider], clients.built)
          IN clients' = [clients EXCEPT
                            !.built = IF client.handle = 0 THEN @ ELSE client.handle,
                            !.requests = Append(@, client)]
    /\ lastSend' = "none"
    /\ lastOp' = NoOp
    /\ UNCHANGED call
    /\ UNCHANGED <<conversations, activeConversationId, input, isLoading, error,
                   now, turns, settings, route, wf>>

----------------------------------------------------------------------------
(* src/services/aiService.ts, the adapters on their own *)

\* the roles of src/types.ts, Message
Roles == {"user", "model", "system", "workflow"}

Contents == <<"one", "two", "three", "four">>

\* the conversations streamChat is called with: a message at least, sampling
\* values inside and outside the providers' ranges
RoleLists == UNION { [1..n -> Roles] : n \in 1..MaxMessages }
Temperatures == {-10, 0, 70, 100, 150, 200, 250}
TopPs == {-10, 0, 95, 100, 150}
Conversations ==
    { [NewConversation(1, m) EXCEPT
          !.messages = [i \in DOMAIN roles |-> Message(i, roles[i], <<Contents[i]>>, FALSE)],
          !.temperature = temperature,
          !.topP = topP] :
      m \in Models, roles \in RoleLists, temperature \in Temperatures, topP \in TopPs }

\* streamChat(conversation) up to the request it makes
StreamChatCall ==
    /\ call.result = NotCalled
    /\ call.conversation.messages # <<>>
    /\ call' = [call EXCEPT !.result = Request(call.conversation, settings)]
    /\ lastSend' = "none"
    /\ lastOp' = NoOp
    /\ UNCHANGED <<conversations, activeConversationId, input, isLoading, error,
                   now, turns, settings, route, wf, clients>>

----------------------------------------------------------------------------
(* Sessions *)

Others ==
    \/ SelectConversation
    \/ SetInput
    \/ Remount
    \/ TitleAnswers
    \/ TitleFails
    \/ StreamOpens
    \/ StreamOpenFails
    \/ StreamChunk
    \/ StreamEnds
    \/ StreamFails

Next == handleSend \/ Others

Spec == Init /\ [][Next]_vars

NextSolo == handleSendSolo \/ Others

SpecSolo == Init /\ [][NextSolo]_vars

\* a session on one of the two pages: the chat of SpecSolo, or the workflow
\* chat modal of a fresh installation
InitWorkflows ==
    /\ conversations = <<>>
    /\ activeConversationId = 0
    /\ input = <<>>
    /\ isLoading = FALSE
    /\ error = <<>>
    /\ now = 1
    /\ turns = <<>>
    /\ settings = [gemini |-> FALSE, openai |-> FALSE]
    /\ lastSend = "none"
    /\ route = "/workflows"
    /\ wf \in { WorkflowChat(k) : k \in BOOLEAN }
    /\ clients = Clients(settings)
    /\ lastOp = NoOp
    /\ call = NoCall

InitPages == Init \/ InitWorkflows

NextPages ==
    \/ NextSolo
    \/ WorkflowSetInput
    \/ onClose
    \/ WorkflowHandleSend
    \/ WebhookSettles

SpecPages == InitPages /\ [][NextPages]_vars

\* the chat with two stored conversations, where conversations are created
\* and deleted as well
InitStore ==
    /\ conversations = << NewConversation(2, <<"gpt-", "4o">>),
                          NewConversation(1, <<"gemini-", "2.5-flash">>) >>
    /\ activeConversationId = 0
    /\ input = <<>>
    /\ isLoading = FALSE
    /\ error = <<>>
    /\ now = 2
    /\ turns = <<>>
    /\ settings = [gemini |-> TRUE, openai |-> FALSE]
    /\ lastSend = "none"
    /\ route = "/chat"
    /\ wf = WorkflowChat(TRUE)
    /\ clients = Clients(settings)
    /\ lastOp = NoOp
    /\ call = NoCall

NextStore == NextSolo \/ createNewChat \/ handleDeleteChat \/ clearAllData

SpecStore == InitStore /\ [][NextStore]_vars

\* the chat with one conversation, which is renamed and whose settings are
\* changed as well
InitEdit ==
    /\ conversations = << NewConversation(1, <<"gemini-", "2.5-flash">>) >>
    /\ activeConversationId = 0
    /\ input = <<>>
    /\ isLoading = FALSE
    /\ error = <<>>
    /\ now = 1
    /\ turns = <<>>
    /\ settings = [gemini |-> TRUE, openai |-> FALSE]
    /\ lastSend = "none"
    /\ route = "/chat"
    /\ wf = WorkflowChat(TRUE)
    /\ clients = Clients(settings)
    /\ lastOp = NoOp
    /\ call = NoCall

NextEdit == NextSolo \/ handleRenameChat \/ updateConversationSettings

SpecEdit == InitEdit /\ [][NextEdit]_vars

\* a call of streamChat on its own
InitAdapters ==
    /\ conversations = <<>>
    /\ activeConversationId = 0
    /\ input = <<>>
    /\ isLoading = FALSE
    /\ error = <<>>
    /\ now = 1
    /\ turns = <<>>
    /\ settings \in [gemini : BOOLEAN, openai : BOOLEAN]
    /\ lastSend = "none"
    /\ route = "/chat"
    /\ wf = WorkflowChat(TRUE)
    /\ clients = Clients(settings)
    /\ lastOp = NoOp
    /\ call \in { [conversation |-> c, result |-> NotCalled] : c \in Conversations }

NextAdapters == StreamChatCall

SpecAdapters == InitAdapters /\ [][NextAdapters]_vars

\* the provider clients on their own: keys are stored and clients requested
InitClients ==
    /\ conversations = <<>>
    /\ activeConversationId = 0
    /\ input = <<>>
    /\ isLoading = FALSE
    /\ error = <<>>
    /\ now = 1
    /\ turns = <<>>
    /\ settings \in [gemini : BOOLEAN, openai : BOOLEAN]
    /\ lastSend = "none"
    /\ route = "/settings"
    /\ wf = WorkflowChat(TRUE)
    /\ clients = Clients(settings)
    /\ lastOp = NoOp
    /\ call = NoCall

NextClients == StoreKey \/ RequestClient

SpecClients == InitClients /\ [][NextClients]_vars

----------------------------------------------------------------------------
(* What the claims speak of *)

\* the conversation of a turn, as the store holds it now
StoredConv(tr) == ConvById(conversations, tr.conv)

RECURSIVE Concat(_)
Concat(texts) == IF texts = <<>> THEN <<>> ELSE Head(texts) \o Concat(Tail(texts))

\* a turn with no other handleSend invocation in the session
OnlyTurn(t) == Len(turns) = 1 /\ t = 1

NetworkCallMade(tr) == tr.titleProvider # "none" \/ tr.provider # "none"

IsErrorContent(content) == StartsWith(content, "Error: ")

(* C1: a completed turn leaves the conversation with exactly two more
   messages than before, the user message followed by one model message that
   is not pending. *)
C1_TurnAddsUserAndModelMessage ==
    \A t \in DOMAIN turns :
        (OnlyTurn(t) /\ Ended(turns[t])) =>
            LET tr == turns[t]
                m == StoredConv(tr).messages
            IN /\ Len(m) = tr.before + 2
               /\ m[tr.before + 1] = UserMessage(tr)
               /\ m[tr.before + 2].role = "model"
               /\ ~m[tr.before + 2].isThinking

(* C2: while an invocation of handleSend on a conversation has not resolved,
   a second one made from the same Chat view for that conversation is
   rejected, so no two of them are ever in flight together. *)
C2_SecondSendRejected ==
    \A t1, t2 \in DOMAIN turns :
        (t1 < t2 /\ turns[t1].conv = turns[t2].conv
                 /\ turns[t1].mounted /\ turns[t2].mounted)
            => ~(InFlight(turns[t1]) /\ InFlight(turns[t2]))

(* C3: after each delta, and after the stream has ended normally, the stored
   content of the turn's model message is the concatenation of the deltas
   received so far, in order. *)
C3_ContentIsConcatenationOfDeltas ==
    \A t \in DOMAIN turns :
        (OnlyTurn(t) /\ turns[t].pc \in {"streaming", "done"} /\ turns[t].received # <<>>) =>
            \E i \in DOMAIN StoredConv(turns[t]).messages :
                /\ StoredConv(turns[t]).messages[i].id = turns[t].phId
                /\ StoredConv(turns[t]).messages[i].content = Concat(turns[t].received)

(* C4: once the first delta of a turn has been applied, the turn's model
   message is not pending in any later state of the turn. *)
C4_PendingStaysFalse ==
    \A t \in DOMAIN turns :
        (turns[t].pc = "streaming" /\ ~turns[t].firstChunk) =>
            \A i \in DOMAIN StoredConv(turns[t]).messages :
                StoredConv(turns[t]).messages[i].id = turns[t].phId
                    => ~StoredConv(turns[t]).messages[i].isThinking

(* C5: whenever a turn has made a network call (the title request or the
   stream request), its user message is already in the stored conversation. *)
C5_UserMessageStoredBeforeNetwork ==
    \A t \in DOMAIN turns :
        (OnlyTurn(t) /\ InFlight(turns[t]) /\ NetworkCallMade(turns[t])) =>
            \E i \in DOMAIN StoredConv(turns[t]).messages :
                StoredConv(turns[t]).messages[i] = UserMessage(turns[t])

\* the step ends the invocation t of Chat.handleSend in its catch block
ChatCatches(t) ==
    /\ turns'[t].pc = "errored"
    /\ t \in DOMAIN turns => turns[t].pc # "errored"

\* the step ends the invocation p of the modal's handleSend in its catch
\* block, the modal still mounted
ModalCatches(p) ==
    /\ wf'.posts[p].pc = "errored"
    /\ wf'.posts[p].mounted
    /\ p \in DOMAIN wf.posts => wf.posts[p].pc # "errored"

\* The failures themselves are all caught: the step in which a handler fails
\* leaves exactly one message of that invocation whose content begins with
\* "Error: ", as the last message of the conversation (of the modal's list),
\* and no invocation ends by throwing.
FailuresBecomeOneErrorMessage ==
    [][/\ \A t \in DOMAIN turns' :
             /\ turns'[t].pc # "threw"
             /\ ChatCatches(t) =>
                   LET m == ConvById(conversations', turns'[t].conv).messages
                   IN /\ m # <<>>
                      /\ { i \in DOMAIN m : m[i].id = turns'[t].phId } = { Len(m) }
                      /\ m[Len(m)].role = "model"
                      /\ ~m[Len(m)].isThinking
                      /\ IsErrorContent(m[Len(m)].content)
       /\ \A p \in DOMAIN wf'.posts :
             /\ wf'.posts[p].pc # "threw"
             /\ ModalCatches(p) =>
                   LET m == wf'.messages
                       old == Len(wf.messages)
                       new == { i \in DOMAIN m : i > old /\ IsErrorContent(m[i].content) }
                   IN /\ SubSeq(m, 1, old) = wf.messages
                      /\ new = { Len(m) }
                      /\ m[Len(m)].role = "workflow"
                      /\ ~wf'.isLoading
      ]_vars

(* C6: every chat turn and every webhook turn ends in a message and not in an
   exception: when the handler has returned, the last message of the
   conversation (of the modal's list) is the message of that turn, and after
   a failure its content begins with "Error: ". *)
C6_EveryTurnEndsInAMessage ==
    /\ \A t \in DOMAIN turns :
          (OnlyTurn(t) /\ Ended(turns[t])) =>
              LET m == StoredConv(turns[t]).messages
              IN /\ turns[t].pc # "threw"
                 /\ m # <<>>
                 /\ m[Len(m)].id = turns[t].phId
                 /\ m[Len(m)].role = "model"
                 /\ turns[t].pc = "errored" => IsErrorContent(m[Len(m)].content)
    /\ LET n == Len(wf.posts)
       IN (n > 0 /\ wf.posts[n].mounted /\ wf.posts[n].pc \in {"done", "errored"}) =>
              LET m == wf.messages
              IN /\ m # <<>>
                 /\ m[Len(m)].role = "workflow"
                 /\ wf.posts[n].pc = "errored" => IsErrorContent(m[Len(m)].content)

(* C7: handleSend with a text that is empty or only whitespace is rejected,
   and the call changes neither the conversations nor the input, isLoading,
   the error or the invocations in flight. *)
C7_BlankSendChangesNothing ==
    [][(route = "/chat" /\ Trim(input) = <<>> /\ lastSend' # "none") =>
          /\ lastSend' = "rejected"
          /\ lastOp' = NoOp
          /\ UNCHANGED call
          /\ UNCHANGED <<conversations, activeConversationId, input, isLoading,
                         error, turns>>
      ]_vars

\* a whitespace-only text was sent to an idle chat with an active conversation,
\* and rejected
C7_WhitespaceSendRejected ==
    /\ lastSend = "rejected"
    /\ input = <<" ">>
    /\ ~isLoading
    /\ HasConv(conversations, activeConversationId)

(* C8: after a successful first turn the title is "New Chat" exactly when
   title generation failed. *)
C8_TitleAssigned ==
    \A t \in DOMAIN turns :
        (OnlyTurn(t) /\ turns[t].first /\ turns[t].pc = "done") =>
            (StoredConv(turns[t]).title = NewChat
                <=> turns[t].titleResult \in {"failed", "noclient"})

(* C9: a first turn never waits for the title request: whatever the request
   does, the placeholder exists and the turn has been dispatched. *)
C9_TitleNeverBlocksTurn ==
    \A t \in DOMAIN turns :
        turns[t].first =>
            /\ turns[t].pc # "title"
            /\ turns[t].phId # 0

(* C10: a turn on a conversation whose model matches no known provider ends
   Errored with a message starting "Error:", and requests no stream. *)
C10_UnknownModelFailsWithoutNetwork ==
    \A t \in DOMAIN turns :
        (OnlyTurn(t) /\ StoredConv(turns[t]).model = <<"llama-", "unknown">>) =>
            /\ turns[t].provider = "none"
            /\ Ended(turns[t]) =>
                  /\ turns[t].pc = "errored"
                  /\ StoredConv(turns[t]).messages # <<>>
                  /\ IsErrorContent(StoredConv(turns[t]).messages[Len(StoredConv(turns[t]).messages)].content)

\* the credential of the provider that serves the model is not stored
CredentialAbsent(model) ==
    \/ StartsWith(model, "gpt-") /\ ~settings.openai
    \/ StartsWith(model, "gemini-") /\ ~settings.gemini

\* the step takes the invocation t of handleSend to the dispatch
Dispatches(t) ==
    /\ turns'[t].phId # 0
    /\ t \in DOMAIN turns => turns[t].phId = 0

(* C11: when the credential of the conversation's provider is absent, the
   step that dispatches the turn ends it: no stream is requested, and the
   turn's model message is stored as the last message of the conversation,
   not pending, with "Error: " and the adapter's message as content. *)
C11_AbsentCredentialEndsInErrorMessage ==
    [][\A t \in DOMAIN turns' :
          (Dispatches(t)
             /\ CredentialAbsent(ConvById(conversations', turns'[t].conv).model)) =>
              LET m == ConvById(conversations', turns'[t].conv).messages
              IN /\ turns'[t].provider = "none"
                 /\ turns'[t].pc = "errored"
                 /\ m # <<>>
                 /\ { i \in DOMAIN m : m[i].id = turns'[t].phId } = { Len(m) }
                 /\ m[Len(m)].role = "model"
                 /\ ~m[Len(m)].isThinking
                 /\ m[Len(m)].content \in
                       { <<"Error: ">> \o GeminiKeyMissing.message,
                         <<"Error: ">> \o OpenAIKeyMissing.message }
      ]_vars

\* a turn on a gpt- conversation without an OpenAI key was dispatched and ended
\* in the error message
C11_TurnWithoutOpenAIKeyErrored ==
    \E t \in DOMAIN turns :
        /\ StartsWith(StoredConv(turns[t]).model, "gpt-")
        /\ ~settings.openai
        /\ turns[t].pc = "errored"
        /\ turns[t].provider = "none"
        /\ LET m == StoredConv(turns[t]).messages
           IN m # <<>> /\ m[Len(m)].id = turns[t].phId
                       /\ m[Len(m)].content = <<"Error: ">> \o OpenAIKeyMissing.message
\* the step ends the streaming invocation t otherwise than by the end of the
\* stream
StreamBreaks(t) ==
    /\ t \in DOMAIN turns
    /\ turns[t].pc = "streaming"
    /\ turns'[t].pc \notin {"streaming", "done"}

\* the content the catch block makes of a thrown value
ErrorContents ==
    { <<"Error: ">> \o (IF e.isError THEN e.message ELSE <<"An unknown error occurred.">>) :
         e \in StreamThrows }

(* C12: when the stream fails after zero or more deltas, the turn's model
   message is stored as the last message with content exactly "Error: "
   followed by the error's message, not pending: nothing of the content
   streamed before the failure is left in it. *)
C12_StreamFailureOverwritesPartialContent ==
    [][\A t \in DOMAIN turns' :
          StreamBreaks(t) =>
              LET m == ConvById(conversations', turns'[t].conv).messages
              IN /\ turns'[t].pc = "errored"
                 /\ m # <<>>
                 /\ { i \in DOMAIN m : m[i].id = turns'[t].phId } = { Len(m) }
                 /\ m[Len(m)].role = "model"
                 /\ ~m[Len(m)].isThinking
                 /\ m[Len(m)].content \in ErrorContents
                 /\ turns'[t].mounted => m[Len(m)].content = <<"Error: ">> \o error'
      ]_vars

\* a stream failed after a delta had been applied, and the message holds the
\* error text alone
C12_FailedAfterADelta ==
    \E t \in DOMAIN turns :
        /\ turns[t].pc = "errored"
        /\ turns[t].received # <<>>
        /\ LET m == StoredConv(turns[t]).messages
           IN m # <<>> /\ m[Len(m)].id = turns[t].phId
                       /\ m[Len(m)].content = <<"Error: ", "network down">>
(* C13: the in-flight flag follows the turns of the Chat view: isLoading is
   true while an invocation made from the view is dispatched or streaming,
   and false once every invocation made from it has ended. *)
C13_LoadingWhileInFlight ==
    /\ (\E t \in DOMAIN turns :
            turns[t].mounted /\ turns[t].pc \in {"opening", "streaming"}) => isLoading
    /\ (/\ \E t \in DOMAIN turns : turns[t].mounted
        /\ \A t \in DOMAIN turns : turns[t].mounted => Ended(turns[t])) => ~isLoading
\* the positions of the pending messages of a message list
Pending(m) == { i \in DOMAIN m : m[i].isThinking }

(* C14: in every conversation the messages are in send order (their ids, which
   are clock readings, do not decrease), at most one message is pending, and
   a pending message is the last one. *)
C14_OnePendingMessageAndItIsLast ==
    \A c \in DOMAIN conversations :
        LET m == conversations[c].messages
        IN /\ \A i, j \in DOMAIN m : i < j => m[i].id <= m[j].id
           /\ Cardinality(Pending(m)) <= 1
           /\ Pending(m) \subseteq { Len(m) }
(* C15: a message keeps its identifier, role and content once its turn is
   over: whatever later turns do, the message stored under the placeholder
   id of a turn that completed is a model message whose content is the
   response that turn received. *)
C15_CompletedMessageIsNotRewritten ==
    \A t \in DOMAIN turns :
        turns[t].pc = "done" =>
            \A i \in DOMAIN StoredConv(turns[t]).messages :
                StoredConv(turns[t]).messages[i].id = turns[t].phId =>
                    /\ StoredConv(turns[t]).messages[i].role = "model"
                    /\ StoredConv(turns[t]).messages[i].content = turns[t].fullResponse
\* the messages of the errors the adapters raise themselves
AdapterMessages ==
    { GeminiKeyMissing.message, OpenAIKeyMissing.message,
      GeminiFailed.message, OpenAIFailed.message }

(* C17: a failure of a provider adapter reaches handleSend as the adapter's
   own error, when the stream is opened and while it is consumed: the error
   text of a turn that failed after its request was made is "Error: " and
   one of the adapters' messages. *)
C17_AdapterWrapsEveryFailure ==
    \A t \in DOMAIN turns :
        (OnlyTurn(t) /\ turns[t].pc = "errored" /\ turns[t].provider # "none") =>
            LET m == StoredConv(turns[t]).messages
            IN m # <<>> /\ m[Len(m)].content \in { <<"Error: ">> \o a : a \in AdapterMessages }
\* the posts for which fetch gave a response
Answered == { p \in DOMAIN wf.posts : wf.posts[p].result.kind = "response" }

GenericFailure(message, status) ==
    Len(message) >= 2 /\ message[1] = "Webhook request failed: " /\ message[2] = status

(* C18: postToWebhook maps the status of a response that is not ok to its
   error: 401 to the authentication error, 404 to an error of its own that is
   neither the authentication error nor the generic one, every other status to
   the generic error that carries the status. *)
C18_StatusSelectsTheError ==
    \A p \in Answered :
        LET r == wf.posts[p].result
            o == wf.posts[p].outcome
        IN ~r.ok =>
              /\ o.kind = "throw"
              /\ o.error.isError
              /\ r.status = "401" => o.error.message = AuthFailed
              /\ r.status = "404" =>
                    /\ o.error.message # AuthFailed
                    /\ ~GenericFailure(o.error.message, r.status)
              /\ r.status \notin {"401", "404"} => GenericFailure(o.error.message, r.status)

\* a body that JSON.parse accepts, and whether the object has a text field
IsJson(raw) == Len(raw) >= 2 /\ raw[1] = "{" /\ raw[Len(raw)] = "}"
HasTextField(raw) == IsJson(raw) /\ Len(raw) >= 3 /\ raw[2] = "text:"

(* C19: for a response that is ok, postToWebhook returns the canned
   acknowledgement for an empty body, the value of the text field for a JSON
   body that has one, whatever the value, the pretty-printed JSON for another
   JSON body, and the body itself when it is not JSON; it never throws. *)
C19_OkResponseGivesItsText ==
    \A p \in Answered :
        LET r == wf.posts[p].result
            o == wf.posts[p].outcome
        IN r.ok =>
              /\ o.kind = "return"
              /\ r.body = <<>> => o.text = NoContent
              /\ (r.contentType = JsonType /\ HasTextField(r.body)) =>
                    o.text = SubSeq(r.body, 3, Len(r.body) - 1)
              /\ (r.contentType = JsonType /\ IsJson(r.body) /\ ~HasTextField(r.body)) =>
                    o.text = <<"{", "\n  ">> \o SubSeq(r.body, 2, Len(r.body) - 1) \o <<"\n", "}">>
              /\ (r.body # <<>> /\ ~IsJson(r.body)) => o.text = r.body
\* the requests for the clients of a provider, in the order made
RequestsOf(provider) ==
    SelectSeq(clients.requests, LAMBDA c : c.provider = provider)

(* C16: the client of a provider follows the credential: of two successive
   requests for the same provider, the second returns the handle of the
   first when the key is the same, and a newly built handle made from the new
   key when the key has changed. *)
C16_ClientIsCachedPerCredential ==
    \A provider \in Providers :
        LET r == RequestsOf(provider)
        IN \A i \in 1..(Len(r) - 1) :
              (r[i].apiKey # 0 /\ r[i + 1].apiKey # 0) =>
                  IF r[i + 1].apiKey = r[i].apiKey
                  THEN r[i + 1].handle = r[i].handle
                  ELSE \A j \in 1..i : r[j].handle # r[i + 1].handle

\* the store without its i-th conversation
RemoveAt(store, i) == SubSeq(store, 1, i - 1) \o SubSeq(store, i + 1, Len(store))

\* C20: deleting a conversation removes exactly that conversation from the
\* store and leaves every other conversation as it was, in its place; the
\* active conversation becomes none if and only if it was the deleted one,
\* and is otherwise the one it was.
C20_DeleteRemovesExactlyThatConversation ==
    [][ lastOp'.op = "delete" =>
          /\ \E i \in DOMAIN conversations :
                /\ conversations[i].id = lastOp'.id
                /\ conversations' = RemoveAt(conversations, i)
          /\ ~HasConv(conversations', lastOp'.id)
          /\ (activeConversationId' = 0) <=>
                (activeConversationId = lastOp'.id \/ activeConversationId = 0)
          /\ activeConversationId # lastOp'.id =>
                activeConversationId' = activeConversationId ]_vars

\* a conversation other than the active one has just been deleted, in the
\* middle of a turn of the active one
C20_OtherConversationDeleted ==
    /\ lastOp.op = "delete"
    /\ activeConversationId # 0
    /\ HasConv(conversations, activeConversationId)
    /\ ~HasConv(conversations, lastOp.id)
    /\ \E t \in DOMAIN turns : InFlight(turns[t])

\* a turn is in flight on a conversation other than the active one, and none
\* on the active one, which is in the store
TurnInFlightElsewhere ==
    /\ HasConv(conversations, activeConversationId)
    /\ \E t \in DOMAIN turns :
          InFlight(turns[t]) /\ turns[t].mounted /\ turns[t].conv # activeConversationId
    /\ \A t \in DOMAIN turns :
          InFlight(turns[t]) => turns[t].conv # activeConversationId

(* C21: mutual exclusion is per conversation only: while a turn is in flight
   on one conversation, handleSend with a non-blank text on another
   conversation, which has no turn in flight, is not rejected. *)
C21_SendOnOtherConversationAccepted ==
    TurnInFlightElsewhere =>
        \A text \in Inputs :
            Trim(text) # <<>> => ~SendRejected(text, isLoading, TRUE)

\* a request has been made for the conversation handed to streamChat
Requested == call.result.provider \in {"gemini", "openai"}

\* the history a request carries, its new turn and the places it carries
\* system content in: Gemini has history, message and config.systemInstruction;
\* the OpenAI request is one list, the system prompt first and the new turn last
HistoryOf(request) ==
    IF request.provider = "gemini" THEN request.history
    ELSE SubSeq(request.messages, 2, Len(request.messages) - 1)
NewTurnOf(request) ==
    IF request.provider = "gemini" THEN request.message
    ELSE request.messages[Len(request.messages)].content
SystemInstructionOf(request) ==
    IF request.provider = "gemini" THEN request.systemInstruction
    ELSE request.messages[1].content

\* the role a provider knows a user or model message by
ProviderRole(provider, role) ==
    IF provider = "openai" /\ role = "model" THEN "assistant" ELSE role

(* C22: the history sent to a provider is all messages but the last, in
   order, without the messages whose role is neither user nor model; the
   system instruction goes through the provider's system channel only; the
   last message is sent as the new turn and is not in the history.  For the
   Gemini adapter and for the OpenAI adapter. *)
C22_HistoryIsPriorUserAndModelTurns ==
    Requested =>
        LET c == call.conversation
            request == call.result
            prior == SelectSeq(SubSeq(c.messages, 1, Len(c.messages) - 1),
                               LAMBDA m : m.role \in {"user", "model"})
        IN /\ HistoryOf(request) =
                 [i \in DOMAIN prior |->
                     [role |-> ProviderRole(request.provider, prior[i].role),
                      content |-> prior[i].content]]
           /\ SystemInstructionOf(request) = c.systemPrompt
           /\ \A i \in DOMAIN HistoryOf(request) :
                 HistoryOf(request)[i].role \in {"user", "model", "assistant"}
           /\ NewTurnOf(request) = c.messages[Len(c.messages)].content

\* x brought into lo..hi
Clamp(x, lo, hi) == IF x < lo THEN lo ELSE IF x > hi THEN hi ELSE x

(* C23: the temperature and top-p a provider is sent are inside its range,
   whatever the conversation holds: Gemini gets both clamped to [0,1], OpenAI
   gets temperature clamped to [0,2] and top-p to [0,1] (in hundredths here);
   no value is rejected or sent as it is when it is out of range. *)
C23_SamplingIsClamped ==
    /\ (call.result # NotCalled /\ streamChat(call.conversation, settings).kind = "request")
          => Requested
    /\ Requested =>
          /\ call.result.temperature =
                Clamp(call.conversation.temperature, 0,
                      IF call.result.provider = "openai" THEN 200 ELSE 100)
          /\ call.result.topP = Clamp(call.conversation.topP, 0, 100)

\* the functional updates an invocation in flight has passed to
\* setConversations so far, in call order
UpdatesOf(tr) ==
    LET modelThinkingMessage == Message(tr.phId, "model", <<>>, TRUE)
        n == Len(tr.received)
    IN << Updater(tr.conv, "replace", ConversationToUpdate(tr, tr.autoTitle)),
          Updater(tr.conv, "append", modelThinkingMessage) >>
       \o [k \in 1..n |->
              IF k = 1
              THEN Updater(tr.conv, "replaceLast",
                           Message(tr.phId, "model", Concat(SubSeq(tr.received, 1, 1)), FALSE))
              ELSE Updater(tr.conv, "content", Concat(SubSeq(tr.received, 1, k)))]

\* updates applied one after the other, each to the result of the one before
RECURSIVE Composed(_, _)
Composed(updates, store) ==
    IF updates = <<>> THEN store
    ELSE Composed(Tail(updates), MapConv(Head(updates), store))

(* C24: a functional update given to the setter of useLocalStorage is applied
   to the value stored last: after the n updates one handleSend invocation
   has made, the store is the n updates composed in call order on the store
   the invocation found, none of them lost. *)
C24_UpdatesComposeInCallOrder ==
    \A t \in DOMAIN turns :
        (OnlyTurn(t) /\ turns[t].pc \in {"opening", "streaming"}) =>
            conversations = Composed(UpdatesOf(turns[t]), turns[t].snap)

\* the step applies a delta of the invocation t, or runs its catch block on a
\* failure of the request or of the stream
AppliesDeltaOrError(t) ==
    /\ t \in DOMAIN turns
    /\ turns[t].pc \in {"opening", "streaming"}
    /\ \/ turns'[t].chunks = turns[t].chunks + 1
       \/ turns'[t].pc = "errored"

(* C25: a delta application or an error replacement of a turn changes only
   the message that has the turn's placeholder id: every other message of the
   conversation, a user message or a message of another turn, is after the
   step what and where it was before. *)
C25_OnlyThePlaceholderChanges ==
    [][ \A t \in DOMAIN turns :
          AppliesDeltaOrError(t) =>
              \A i \in DOMAIN conversations :
                  conversations[i].id = turns[t].conv =>
                      /\ i \in DOMAIN conversations'
                      /\ conversations'[i].id = turns[t].conv
                      /\ \A k \in DOMAIN conversations[i].messages :
                            conversations[i].messages[k].id # turns[t].phId =>
                                /\ k \in DOMAIN conversations'[i].messages
                                /\ conversations'[i].messages[k] = conversations[i].messages[k]
      ]_vars

\* the step is one of the invocation t: a continuation of one of its awaits
StepOf(t) ==
    /\ t \in DOMAIN turns
    /\ InFlight(turns[t])
    /\ [turns'[t] EXCEPT !.mounted = TRUE] # [turns[t] EXCEPT !.mounted = TRUE]

\* the messages the store holds, of all conversations
StoredMessageIds(store) ==
    UNION { { store[i].messages[k].id : k \in DOMAIN store[i].messages } : i \in DOMAIN store }

(* C26: once the conversation of a turn in flight has been removed from the
   store (by handleDeleteChat or by clearAllData), no later step of the turn
   puts the conversation back, or any message of the turn. *)
C26_RemovedConversationStaysRemoved ==
    [][ \A t \in DOMAIN turns :
          (StepOf(t) /\ ~HasConv(conversations, turns[t].conv)) =>
              /\ ~HasConv(conversations', turns[t].conv)
              /\ StoredMessageIds(conversations') \cap {turns'[t].userId, turns'[t].phId} = {}
      ]_vars

\* the step is the continuation of the title await of the invocation t
AfterTitle(t) ==
    /\ t \in DOMAIN turns
    /\ turns[t].pc = "title"
    /\ turns'[t].pc # "title"

(* C27: what another handler changed in a conversation while a turn on it
   awaited its title (a rename, a settings change) is still in the store
   after the turn has appended the user message: the settings are the ones
   stored before the append, and the title is the one stored before or the
   generated one, not those of the snapshot taken when handleSend started. *)
C27_AppendKeepsConcurrentChanges ==
    [][ \A t \in DOMAIN turns :
          (AfterTitle(t) /\ HasConv(conversations, turns[t].conv)) =>
              LET before == ConvById(conversations, turns[t].conv)
                  after == ConvById(conversations', turns[t].conv)
              IN /\ HasConv(conversations', turns[t].conv)
                 /\ after.temperature = before.temperature
                 /\ after.topP = before.topP
                 /\ after.systemPrompt = before.systemPrompt
                 /\ after.title \in {before.title, turns'[t].autoTitle}
      ]_vars

\* no two messages of the list have the same id
DistinctIds(messages) ==
    \A j, k \in DOMAIN messages : j # k => messages[j].id # messages[k].id

(* C28: the message ids of a conversation are pairwise distinct after any
   sequence of turns, the user message taking the clock's time and the
   placeholder that time plus one: in the conversations of the store, and in
   the conversation with the new user message that handleSend builds, stores
   and hands to streamChat; so a user message never has the id of the model
   message of the turn before. *)
C28_MessageIdsDistinct ==
    /\ \A i \in DOMAIN conversations : DistinctIds(conversations[i].messages)
    /\ \A t \in DOMAIN turns :
          InFlight(turns[t]) =>
              DistinctIds(ConversationToUpdate(turns[t], turns[t].autoTitle).messages)

(* C29: a store update made by a turn (the user message, the placeholder, a
   delta, the error replacement) changes the conversation of the turn only:
   the store has as many conversations after it as before, in the same
   order, and every other conversation is what it was, title, settings and
   messages. *)
C29_TurnWritesOnlyItsConversation ==
    [][ \A t \in DOMAIN turns :
          StepOf(t) =>
              /\ Len(conversations') = Len(conversations)
              /\ \A i \in DOMAIN conversations :
                    /\ conversations'[i].id = conversations[i].id
                    /\ conversations[i].id # turns[t].conv =>
                          conversations'[i] = conversations[i]
      ]_vars

\* the conversation the invocation hands to streamChat
SentConversation(tr) == ConversationToUpdate(tr, tr.autoTitle)

(* C30: the pending placeholder is never sent to the provider: the
   conversation handleSend passes to streamChat ends with the user message
   just submitted, the new turn of the request is that user's text, and no
   message of the history is a pending message without content. *)
C30_NoPendingMessageIsSent ==
    \A t \in DOMAIN turns :
        turns[t].pc \in {"opening", "streaming"} =>
            LET c == SentConversation(turns[t])
                request == Request(c, settings)
                history == HistoryOf(request)
            IN /\ c.messages[Len(c.messages)] = UserMessage(turns[t])
               /\ request.provider = turns[t].provider
               /\ NewTurnOf(request) = turns[t].text
               /\ Len(history) = Len(c.messages) - 1
               /\ \A k \in DOMAIN history :
                     ~(c.messages[k].isThinking /\ history[k].content = <<>>)

====
